---- MODULE Spec2Model ----
(***************************************************************************)
(* DB::Block (dbms/src/Core/Block.cpp): an ordered list of columns with    *)
(* two derived indices (by position, by name) that hold list iterators.    *)
(*                                                                         *)
(* A std::list iterator is the address of a list node.  The model keeps    *)
(* one heap of node addresses shared by all blocks, so that a handle kept  *)
(* in an index can be told apart from the entry it should address: it may  *)
(* address a node of another block, or a node that has been freed.         *)
(***************************************************************************)
EXTENDS Integers, Sequences, FiniteSets, TLC

\* ------------------------------------------------------------------ bounds
\* Number of list nodes allocated in a run (over all blocks).
MaxNodes == 3
\* Number of columns of each block the structure model starts from.
MaxColumns == 2

\* ---------------------------------------------------------------- universe
Blocks == {"B1", "B2"}
Names == {"a", "b", "c"}
\* Names used where two blocks are in play.
CopyNames == {"a", "b"}
\* Element counts of the populated columns used by the row-count model.
Sizes == {0, 3, 5}
\* column.isNull(): the Column handle of an entry is unset.
Unset == -1

\* type->getName(): the canonical names of the type descriptors in use.
Types == {"UInt8", "String"}

\* Node addresses.  0 is no node: the end() iterator.  Enough of them for the
\* nodes of a run and for two blocks of MaxColumns columns.
Nodes == 1 .. (IF MaxNodes > 2 * MaxColumns THEN MaxNodes ELSE 2 * MaxColumns)

\* ColumnWithNameAndType
ColumnWithNameAndType(n, c, t) == [name |-> n, column |-> c, type |-> t]
\* Content of a heap cell that holds no live list node.
FreeCell == [name |-> "", column |-> Unset, type |-> ""]

\* Entries inserted by the one-block model: one per name.
Entries == {ColumnWithNameAndType(n, 3, "UInt8") : n \in Names}
\* Entries inserted by the two-block model.
CopyEntries == {ColumnWithNameAndType(n, 3, "UInt8") : n \in CopyNames}
\* Entries of the blocks of the structure model: the left one's columns hold
\* three elements each, the right one's none or three.
LhsEntries == {ColumnWithNameAndType(n, 3, t) : n \in CopyNames, t \in Types}
RhsEntries == {ColumnWithNameAndType(n, c, t) : n \in CopyNames, c \in {0, 3}, t \in Types}
\* Entries inserted by the row-count model: any name, any column state.
RowEntries == {ColumnWithNameAndType(n, c, "UInt8") : n \in Names, c \in Sizes \cup {Unset}}

VARIABLES
    heap,               \* node address -> the entry stored in that list node
    data,               \* block -> its std::list, as the sequence of its node addresses
    index_by_position,  \* block -> vector of list iterators
    index_by_name,      \* block -> map from name to list iterator
    allocated,          \* number of list nodes allocated so far
    copied_from,        \* (history) block -> the block it was last built from, or ""
    op                  \* (history) the last operation called and how it ended

vars == <<heap, data, index_by_position, index_by_name, allocated, copied_from, op>>

\* ------------------------------------------------------- list, map, heap
\* Position (1-based) of node n in list d; Len(d) + 1 (end()) when n is not a node of d.
IndexOf(d, n) ==
    IF \E i \in 1..Len(d) : d[i] = n
    THEN CHOOSE i \in 1..Len(d) : d[i] = n
    ELSE Len(d) + 1

\* The iterator i - 1 steps after begin(): the i-th node, or end().
At(d, i) == IF i \in 1..Len(d) THEN d[i] ELSE 0

\* *it
Deref(h, it) == IF it \in Nodes THEN h[it] ELSE FreeCell

\* Mutant: the new node is linked after the node the iterator addresses.
ListInsert_after(d, before, n) ==
    LET i == IF before = 0 THEN Len(d) + 1 ELSE IndexOf(d, before) + 1
    IN SubSeq(d, 1, i - 1) \o <<n>> \o SubSeq(d, i, Len(d))

\* std::list::insert(pos, x): links node n before the node `before` (0 = end()).
ListInsert(d, before, n) ==
    LET i == IF before = 0 THEN Len(d) + 1 ELSE IndexOf(d, before)
    IN SubSeq(d, 1, i - 1) \o <<n>> \o SubSeq(d, i, Len(d))

\* std::list::erase(it): unlinks the node the iterator addresses from its neighbours.
ListErase(d, n) == SelectSeq(d, LAMBDA m : m # n)

\* operator new for a list node: addresses are handed out in increasing order and
\* the address of a freed node is not handed out again, so a node linked later
\* has a higher address.
Alloc(a) == a + 1

\* Nodes left to allocate.
Available(a) == MaxNodes - a

\* Mutant: std::map::insert, which keeps the mapping a key already has.
MapSet_keep(m, k, v) == [x \in (DOMAIN m) \cup {k} |-> IF x \in DOMAIN m THEN m[x] ELSE v]

\* std::map::operator[]= and std::map::erase(iterator).
MapSet(m, k, v) == [x \in (DOMAIN m) \cup {k} |-> IF x = k THEN v ELSE m[x]]
\* Mutant: the slot stays in the map.
MapErase_kept(m, k) == m

MapErase(m, k) == [x \in (DOMAIN m) \ {k} |-> m[x]]
EmptyMap == [x \in {} |-> 0]

\* ------------------------------------------------------------ the queries
columns(b) == Len(data[b])

has(b, name) == name \in DOMAIN index_by_name[b]

\* The node getByPosition returns a reference to (0-based position < size of the index).
getByPosition(b, position) == index_by_position[b][position + 1]

\* The node getByName returns a reference to (name is in the name index).
getByName(b, name) == index_by_name[b][name]

\* std::distance(data.begin(), it->second)
getPositionByName(b, name) == IndexOf(data[b], index_by_name[b][name]) - 1

\* Mutant: the loop does not advance the list iterator.
rebuildIndexByPosition_noadvance(d) == [pos \in 1..Len(d) |-> d[1]]

\* ----------------------------------------------------------- the indices
\* index_by_position.resize(data.size()); index_by_position[pos] = it for each node.
rebuildIndexByPosition(d) == [pos \in 1..Len(d) |-> d[pos]]

\* ------------------------------------------------------------ operations
Running == op.result # "crash"

\* What a call that returns no count and throws no SizeMismatch leaves in op.ret.
NoRet == [value |-> 0, n1 |-> "", c1 |-> 0, n2 |-> "", c2 |-> 0]

\* The record of a call: which operation, on which block, how it ended.  A call of
\* insertUnique also records the name it was given and columns() before the call,
\* and the same two of the call before it when that was an insertUnique on the
\* same block.  other is the second block of a call that takes two.
Op(nm, b, res, ename) ==
    LET u == nm = "insertUnique"
        uu == u /\ op.name = "insertUnique" /\ op.b = b
    IN [name |-> nm, b |-> b, result |-> res,
        ename |-> IF u THEN ename ELSE "",
        cols |-> IF u THEN Len(data[b]) ELSE 0,
        prev |-> IF uu THEN op.ename ELSE "",
        prevcols |-> IF uu THEN op.cols ELSE 0,
        other |-> "",
        ret |-> NoRet]

Init ==
    /\ heap = [n \in Nodes |-> FreeCell]
    /\ data = [b \in Blocks |-> <<>>]
    /\ index_by_position = [b \in Blocks |-> <<>>]
    /\ index_by_name = [b \in Blocks |-> EmptyMap]
    /\ allocated = 0
    /\ copied_from = [b \in Blocks |-> ""]
    /\ op = [name |-> "Block", b |-> "B1", result |-> "ok", ename |-> "", cols |-> 0,
             prev |-> "", prevcols |-> 0, other |-> "", ret |-> NoRet]

Unchanged == UNCHANGED <<heap, data, index_by_position, index_by_name, allocated, copied_from>>

\* data.insert(before, elem); rebuildIndexByPosition(); index_by_name[elem.name] = it
InsertNode(b, before, elem) ==
    LET it == Alloc(allocated)
        d == ListInsert(data[b], before, it)
    IN /\ heap' = [heap EXCEPT ![it] = elem]
       /\ allocated' = it
       /\ data' = [data EXCEPT ![b] = d]
       /\ index_by_position' = [index_by_position EXCEPT ![b] = rebuildIndexByPosition(d)]
       /\ index_by_name' = [index_by_name EXCEPT ![b] = MapSet(@, elem.name, it)]
       /\ UNCHANGED copied_from

\* Mutant: the entry is linked at the front of the list.
insert_front(b, elem) ==
    /\ Running
    /\ Available(allocated) > 0
    /\ InsertNode(b, At(data[b], 1), elem)
    /\ op' = Op("insert", b, "ok", elem.name)

\* void Block::insert(const ColumnWithNameAndType & elem)
insert(b, elem) ==
    /\ Running
    /\ Available(allocated) > 0
    /\ InsertNode(b, 0, elem)
    /\ op' = Op("insert", b, "ok", elem.name)

\* Mutant: position == size is not handed to insert(elem); the entry goes to the front.
insert_position_noend(b, position, elem) ==
    /\ Running
    /\ IF position > Len(index_by_position[b])
       THEN /\ op' = Op("insert_position", b, "PositionOutOfBound", elem.name)
            /\ Unchanged
       ELSE /\ Available(allocated) > 0
            /\ IF position = Len(index_by_position[b])
               THEN InsertNode(b, At(data[b], 1), elem)
               ELSE InsertNode(b, index_by_position[b][position + 1], elem)
            /\ op' = Op("insert_position", b, "ok", elem.name)

\* Mutant: a position past the end is taken for the end instead of being refused.
insert_position_clamp(b, position, elem) ==
    /\ Running
    /\ Available(allocated) > 0
    /\ IF position >= Len(index_by_position[b])
       THEN InsertNode(b, 0, elem)
       ELSE InsertNode(b, index_by_position[b][position + 1], elem)
    /\ op' = Op("insert_position", b, "ok", elem.name)

\* void Block::insert(size_t position, const ColumnWithNameAndType & elem)
insert_position(b, position, elem) ==
    /\ Running
    /\ IF position > Len(index_by_position[b])
       THEN /\ op' = Op("insert_position", b, "PositionOutOfBound", elem.name)
            /\ Unchanged
       ELSE /\ Available(allocated) > 0
            /\ IF position = Len(index_by_position[b])
               THEN InsertNode(b, 0, elem)
               ELSE InsertNode(b, index_by_position[b][position + 1], elem)
            /\ op' = Op("insert_position", b, "ok", elem.name)

\* Mutant: inserts without looking the name up.
insertUnique_unchecked(b, elem) ==
    /\ Running
    /\ Available(allocated) > 0
    /\ InsertNode(b, 0, elem)
    /\ op' = Op("insertUnique", b, "ok", elem.name)

\* void Block::insertUnique(const ColumnWithNameAndType & elem)
insertUnique(b, elem) ==
    /\ Running
    /\ IF elem.name \notin DOMAIN index_by_name[b]
       THEN /\ Available(allocated) > 0
            /\ InsertNode(b, 0, elem)
       ELSE Unchanged
    /\ op' = Op("insertUnique", b, "ok", elem.name)

\* data.erase(it); rebuildIndexByPosition(), with the name index already updated to m.
EraseNode(b, it, m) ==
    LET d == [x \in Blocks |-> ListErase(data[x], it)]
    IN /\ heap' = [n \in Nodes |-> IF n = it THEN FreeCell ELSE heap[n]]
       /\ data' = d
       /\ index_by_position' = [index_by_position EXCEPT ![b] = rebuildIndexByPosition(d[b])]
       /\ index_by_name' = [index_by_name EXCEPT ![b] = m]
       /\ UNCHANGED <<allocated, copied_from>>

\* What index_by_name.erase(index_by_name.end()) can do: undefined behaviour.
\* "crash": the process dies in the erase (abort, segmentation fault, endless loop);
\* "continue": the erase returns with the map as it was.
EraseEndOutcomes == {"crash", "continue"}

\* void Block::erase(size_t position)
erase_position(b, position) ==
    /\ Running
    /\ IF position >= Len(index_by_position[b])
       THEN /\ op' = Op("erase_position", b, "PositionOutOfBound", "")
            /\ Unchanged
       ELSE LET it == index_by_position[b][position + 1]
                name == Deref(heap, it).name
            IN IF name \in DOMAIN index_by_name[b]
               THEN /\ EraseNode(b, it, MapErase(index_by_name[b], name))
                    /\ op' = Op("erase_position", b, "ok", name)
               ELSE \E outcome \in EraseEndOutcomes :
                        IF outcome = "crash"
                        THEN /\ op' = Op("erase_position", b, "crash", name)
                             /\ Unchanged
                        ELSE /\ EraseNode(b, it, index_by_name[b])
                             /\ op' = Op("erase_position", b, "ok", name)

\* Mutant: a name the name index does not hold is ignored instead of being refused.
erase_name_silent(b, name) ==
    /\ Running
    /\ IF name \notin DOMAIN index_by_name[b]
       THEN /\ op' = Op("erase_name", b, "ok", name)
            /\ Unchanged
       ELSE /\ EraseNode(b, index_by_name[b][name], MapErase(index_by_name[b], name))
            /\ op' = Op("erase_name", b, "ok", name)

\* void Block::erase(const String & name)
erase_name(b, name) ==
    /\ Running
    /\ IF name \notin DOMAIN index_by_name[b]
       THEN /\ op' = Op("erase_name", b, "ColumnNotFound", name)
            /\ Unchanged
       ELSE /\ EraseNode(b, index_by_name[b][name], MapErase(index_by_name[b], name))
            /\ op' = Op("erase_name", b, "ok", name)

\* Mutant: the list is not copied, the destination shares the source's nodes.
AssignList_shared(h, a, d, src, i) == [heap |-> h, allocated |-> a, data |-> src]

\* ------------------------------------------------------------------ copy
\* data = other.data: std::list assignment overwrites the nodes this list already
\* has, then frees the surplus ones or links new ones for the rest.
RECURSIVE AssignList(_, _, _, _, _)
AssignList(h, a, d, src, i) ==
    IF i > Len(src)
    THEN [heap |-> [n \in Nodes |-> IF \E j \in i..Len(d) : d[j] = n THEN FreeCell ELSE h[n]],
          allocated |-> a,
          data |-> SubSeq(d, 1, Len(src))]
    ELSE IF i <= Len(d)
         THEN AssignList([h EXCEPT ![d[i]] = Deref(h, src[i])], a, d, src, i + 1)
         ELSE LET n == Alloc(a)
              IN AssignList([h EXCEPT ![n] = Deref(h, src[i])], n, Append(d, n), src, i + 1)

\* Mutant: the name index is copied field by field, handles and all.
CopyIndexByName_naive(this, other, d) == index_by_name[other]

\* The loop of operator= over other.index_by_name, which is read after
\* index_by_name.clear(): the handle at the same distance from begin() in the new list.
CopyIndexByName(this, other, d) ==
    LET from == IF this = other THEN EmptyMap ELSE index_by_name[other]
    IN [n \in DOMAIN from |-> At(d, IndexOf(data[other], from[n]))]

\* Block & Block::operator= (const Block & other); Block::Block(const Block & other)
operator_assign(this, other) ==
    /\ Running
    /\ Available(allocated) + Len(data[this]) >= Len(data[other])
    /\ LET r == AssignList(heap, allocated, data[this], data[other], 1)
       IN /\ heap' = r.heap
          /\ allocated' = r.allocated
          /\ data' = [data EXCEPT ![this] = r.data]
          /\ index_by_position' = [index_by_position EXCEPT ![this] = rebuildIndexByPosition(r.data)]
          /\ index_by_name' = [index_by_name EXCEPT ![this] = CopyIndexByName(this, other, r.data)]
          /\ copied_from' = [copied_from EXCEPT ![this] = other]
    /\ op' = Op("operator_assign", this, "ok", "")

\* ------------------------------------------------------------ row count
\* What it->column->size() can do on an unset Column: the smart pointer either
\* throws on a null dereference or the process dies.
NullDerefOutcomes == {"NullPointerException", "crash"}

\* The loop of Block::rows() from the i-th node of list d on, res being the running count.
RECURSIVE rows_loop(_, _, _, _)
rows_loop(h, d, i, res) ==
    IF i > Len(d)
    THEN [result |-> "ok", ret |-> [NoRet EXCEPT !.value = res]]
    ELSE LET it == Deref(h, d[i])
             size == it.column
         IN IF size = Unset
            THEN [result |-> "NullDeref", ret |-> NoRet]
            ELSE IF res # 0 /\ size # res
                 THEN [result |-> "SizeMismatch",
                       ret |-> [value |-> 0, n1 |-> Deref(h, d[1]).name, c1 |-> res,
                                n2 |-> it.name, c2 |-> size]]
                 ELSE rows_loop(h, d, i + 1, size)

\* size_t Block::rows() const
rows(b) ==
    /\ Running
    /\ LET r == rows_loop(heap, data[b], 1, 0)
       IN \E outcome \in NullDerefOutcomes :
              op' = [Op("rows", b, IF r.result = "NullDeref" THEN outcome ELSE r.result, "")
                        EXCEPT !.ret = r.ret]
    /\ Unchanged

\* ------------------------------------------------------------ structure
\* Block::insert(elem) called for elems[i], elems[i + 1], ... on the block with
\* list d and name index m.
RECURSIVE InsertLoop(_, _, _, _, _, _)
InsertLoop(h, a, d, m, elems, i) ==
    IF i > Len(elems)
    THEN [heap |-> h, allocated |-> a, data |-> d,
          index_by_position |-> rebuildIndexByPosition(d), index_by_name |-> m]
    ELSE LET it == Alloc(a)
         IN InsertLoop([h EXCEPT ![it] = elems[i]], it, ListInsert(d, 0, it),
                       MapSet(m, elems[i].name, it), elems, i + 1)

\* ColumnWithNameAndType::cloneEmpty() of an entry with a populated Column: the
\* same name and type, the Column replaced by a zero-length one.
ColumnWithNameAndType_cloneEmpty(e) == ColumnWithNameAndType(e.name, 0, e.type)

\* Every entry of block b has a populated Column.
AllPopulated(b) == \A i \in 1..Len(data[b]) : Deref(heap, data[b][i]).column # Unset

\* Mutant: the clone is built back to front.
cloneEmpty_reversed(this, res) ==
    /\ Running
    /\ this # res /\ AllPopulated(this)
    /\ data[res] = <<>> /\ index_by_name[res] = EmptyMap /\ copied_from[res] = ""
    /\ LET k == Len(data[this])
           elems == [i \in 1..k |->
                        ColumnWithNameAndType_cloneEmpty(Deref(heap, data[this][k + 1 - i]))]
           r == InsertLoop(heap, allocated, <<>>, EmptyMap, elems, 1)
       IN /\ heap' = r.heap
          /\ allocated' = r.allocated
          /\ data' = [data EXCEPT ![res] = r.data]
          /\ index_by_position' = [index_by_position EXCEPT ![res] = r.index_by_position]
          /\ index_by_name' = [index_by_name EXCEPT ![res] = r.index_by_name]
    /\ copied_from' = [copied_from EXCEPT ![res] = this]
    /\ op' = [Op("cloneEmpty", this, "ok", "") EXCEPT !.other = res]

\* Block Block::cloneEmpty() const, the returned block being res, a block that
\* was default-constructed and not touched since.  Applied to blocks whose
\* columns are all populated.
cloneEmpty(this, res) ==
    /\ Running
    /\ this # res /\ AllPopulated(this)
    /\ data[res] = <<>> /\ index_by_name[res] = EmptyMap /\ copied_from[res] = ""
    /\ LET elems == [i \in 1..Len(data[this]) |->
                        ColumnWithNameAndType_cloneEmpty(Deref(heap, data[this][i]))]
           r == InsertLoop(heap, allocated, <<>>, EmptyMap, elems, 1)
       IN /\ heap' = r.heap
          /\ allocated' = r.allocated
          /\ data' = [data EXCEPT ![res] = r.data]
          /\ index_by_position' = [index_by_position EXCEPT ![res] = r.index_by_position]
          /\ index_by_name' = [index_by_name EXCEPT ![res] = r.index_by_name]
    /\ copied_from' = [copied_from EXCEPT ![res] = this]
    /\ op' = [Op("cloneEmpty", this, "ok", "") EXCEPT !.other = res]

\* The loop of blocksHaveEqualStructure from position i on.
RECURSIVE EqualStructureLoop(_, _, _, _)
EqualStructureLoop(lhs, rhs, i, cols) ==
    IF i >= cols
    THEN TRUE
    ELSE LET lhs_type == Deref(heap, getByPosition(lhs, i)).type
             rhs_type == Deref(heap, getByPosition(rhs, i)).type
         IN IF lhs_type # rhs_type THEN FALSE
            ELSE EqualStructureLoop(lhs, rhs, i + 1, cols)

\* Mutant: the columns' names are compared as well.
blocksHaveEqualStructure_names(lhs, rhs) ==
    /\ columns(rhs) = columns(lhs)
    /\ \A i \in 0 .. columns(lhs) - 1 :
           /\ Deref(heap, getByPosition(lhs, i)).type = Deref(heap, getByPosition(rhs, i)).type
           /\ Deref(heap, getByPosition(lhs, i)).name = Deref(heap, getByPosition(rhs, i)).name

\* bool blocksHaveEqualStructure(const Block & lhs, const Block & rhs)
blocksHaveEqualStructure(lhs, rhs) ==
    IF columns(rhs) # columns(lhs)
    THEN FALSE
    ELSE EqualStructureLoop(lhs, rhs, 0, columns(lhs))

\* A call of blocksHaveEqualStructure(lhs, rhs).
CompareStructure(lhs, rhs) ==
    /\ Running
    /\ op' = [Op("blocksHaveEqualStructure", lhs,
                 IF blocksHaveEqualStructure(lhs, rhs) THEN "true" ELSE "false", "")
                 EXCEPT !.other = rhs]
    /\ Unchanged

\* -------------------------------------------------------- specifications
Positions == 0 .. MaxNodes

\* The calls that change one block, with entries drawn from E.
Mutate(b, E) ==
    \/ \E e \in E : insert(b, e)
    \/ \E e \in E, p \in Positions : insert_position(b, p, e)
    \/ \E e \in E : insertUnique(b, e)
    \/ \E p \in Positions : erase_position(b, p)
    \/ \E e \in E : erase_name(b, e.name)

\* One block under every operation, self-assignment included.
Next ==
    \/ Mutate("B1", Entries)
    \/ operator_assign("B1", "B1")

Spec == Init /\ [][Next]_vars

\* Two blocks: both under every operation, and each assigned from B1 (for B1
\* a self-assignment).
NextCopy ==
    \/ \E b \in Blocks : Mutate(b, CopyEntries)
    \/ \E this \in Blocks : operator_assign(this, "B1")

SpecCopy == Init /\ [][NextCopy]_vars

\* One block filled with columns of any element count, set or unset, and rows().
NextRows ==
    \/ \E e \in RowEntries : insert("B1", e)
    \/ rows("B1")

SpecRows == Init /\ [][NextRows]_vars

\* No entry of block b's list carries the name n.
FreshName(b, n) == \A i \in 1..Len(data[b]) : Deref(heap, data[b][i]).name # n

\* One block under inserts of names no entry of the list carries, insertUnique
\* and both erases.
NextUnique ==
    \/ \E e \in Entries : FreshName("B1", e.name) /\ insert("B1", e)
    \/ \E e \in Entries, p \in Positions : FreshName("B1", e.name) /\ insert_position("B1", p, e)
    \/ \E e \in Entries : insertUnique("B1", e)
    \/ \E p \in Positions : erase_position("B1", p)
    \/ \E e \in Entries : erase_name("B1", e.name)

SpecUnique == Init /\ [][NextUnique]_vars

\* Sequences over S of at most MaxColumns elements.
SeqsUpTo(S) == UNION {[1..k -> S] : k \in 0..MaxColumns}

\* Two blocks as inserts at the end leave them: B1 filled from l, then B2 from r.
InitStruct ==
    \E l \in SeqsUpTo(LhsEntries), r \in SeqsUpTo(RhsEntries) :
        LET s1 == InsertLoop([n \in Nodes |-> FreeCell], 0, <<>>, EmptyMap, l, 1)
            s2 == InsertLoop(s1.heap, s1.allocated, <<>>, EmptyMap, r, 1)
        IN /\ heap = s2.heap
           /\ allocated = s2.allocated
           /\ data = [b \in Blocks |-> IF b = "B1" THEN s1.data ELSE s2.data]
           /\ index_by_position =
                  [b \in Blocks |-> IF b = "B1" THEN s1.index_by_position
                                    ELSE s2.index_by_position]
           /\ index_by_name =
                  [b \in Blocks |-> IF b = "B1" THEN s1.index_by_name ELSE s2.index_by_name]
           /\ copied_from = [b \in Blocks |-> ""]
           /\ op = [name |-> "Block", b |-> "B1", result |-> "ok", ename |-> "", cols |-> 0,
                    prev |-> "", prevcols |-> 0, other |-> "", ret |-> NoRet]

\* Two given blocks: cloneEmpty() into a fresh block, the structure comparison
\* of any two, and rows().
NextStruct ==
    \/ \E this \in Blocks, res \in Blocks : cloneEmpty(this, res)
    \/ \E lhs \in Blocks, rhs \in Blocks : CompareStructure(lhs, rhs)
    \/ \E b \in Blocks : rows(b)

SpecStruct == InitStruct /\ [][NextStruct]_vars

\* ------------------------------------------------------------ properties
NodesOf(b) == {data[b][i] : i \in 1..Len(data[b])}

\* The entries of a block in column order.
EntriesOf(b) == [i \in 1..Len(data[b]) |-> Deref(heap, data[b][i])]

\* Everything a caller can observe of a block: its size, its nodes and entries in
\* order, and what has, getByName, getPositionByName and getByPosition return.
View(b) ==
    [columns |-> columns(b),
     order |-> data[b],
     entries |-> EntriesOf(b),
     byPosition |-> [i \in 1..Len(index_by_position[b]) |->
                        <<index_by_position[b][i], Deref(heap, index_by_position[b][i])>>],
     has |-> {n \in Names : has(b, n)},
     byName |-> [n \in DOMAIN index_by_name[b] |->
                    <<getByName(b, n), Deref(heap, getByName(b, n)), getPositionByName(b, n)>>]]

MutationOps == {"insert", "insert_position", "insertUnique", "erase_position", "erase_name"}

\* C1: after any sequence of inserts, erases and copies the position index has as
\* many handles as the sequence has entries, and the handle at index i addresses
\* the entry at ordinal i of the sequence.
C1_PositionIndexAligned ==
    \A b \in Blocks :
        /\ Len(index_by_position[b]) = columns(b)
        /\ \A i \in 0 .. columns(b) - 1 : getByPosition(b, i) = data[b][i + 1]

\* A copy that then had an entry inserted before its first one.
C1_Witness ==
    /\ copied_from["B2"] = "B1"
    /\ op.name = "insert_position" /\ op.b = "B2" /\ op.result = "ok"
    /\ columns("B2") = 2
    /\ data["B2"][1] > data["B2"][2]

\* C2: every name in the name index maps to an entry that is in the block's own
\* sequence and carries that name, and that is the most recently inserted of the
\* entries of the sequence with that name.
C2_NameIndexNewest ==
    \A b \in Blocks : \A n \in DOMAIN index_by_name[b] :
        LET it == index_by_name[b][n]
        IN /\ it \in NodesOf(b)
           /\ Deref(heap, it).name = n
           /\ \A m \in NodesOf(b) : Deref(heap, m).name = n => m <= it

\* Two entries named a remain after an erase; the newer one was inserted in front.
C2_Witness ==
    /\ op.name = "insert_position" /\ op.b = "B1"
    /\ allocated = 3
    /\ data["B1"] = <<3, 1>>
    /\ Deref(heap, 1).name = "a" /\ Deref(heap, 3).name = "a"
    /\ getByName("B1", "a") = 3

\* C3: once B2 is a copy of B1, no insert into or erase from B2 changes what B1
\* shows: its size, its column order, has, getByName, getPositionByName, getByPosition.
C3_CopyLaw ==
    [][\A b1 \in Blocks, b2 \in Blocks :
          (b1 # b2 /\ copied_from[b2] = b1 /\ op'.b = b2 /\ op'.name \in MutationOps)
              => View(b1)' = View(b1)]_vars

\* The copy's only entry was erased by name; the source still has its own.
C3_Witness ==
    /\ copied_from["B2"] = "B1"
    /\ op.name = "erase_name" /\ op.b = "B2" /\ op.result = "ok"
    /\ columns("B2") = 0
    /\ columns("B1") = 1 /\ has("B1", "a")

C5_EraseKeepsOtherOwner ==
    [][\A b \in Blocks, p \in Positions :
          (erase_position(b, p) /\ p < columns(b)) =>
              LET it == getByPosition(b, p)
                  n == Deref(heap, it).name
              IN (has(b, n) /\ getByName(b, n) # it) =>
                     /\ n \in DOMAIN index_by_name'[b]
                     /\ index_by_name'[b][n] = index_by_name[b][n]]_vars

\* C6: on a block whose columns are all populated, rows() fails with SizeMismatch
\* whenever two columns differ in element count (a count of 0 included) and
\* otherwise returns the common count, 0 for an empty block.
C6_RowsComparesAll ==
    LET b == op.b
        counts == {EntriesOf(b)[i].column : i \in 1..columns(b)}
    IN (op.name = "rows" /\ Unset \notin counts) =>
           IF Cardinality(counts) > 1
           THEN op.result = "SizeMismatch"
           ELSE /\ op.result = "ok"
                /\ \A c \in counts : op.ret.value = c
                /\ counts = {} => op.ret.value = 0

\* C7: rows() neither dies nor fails on an unset Column, and gives the result
\* (the count, or SizeMismatch) it gives for the block without its unset entries.
C7_RowsSkipsUnset ==
    op.name = "rows" =>
        LET populated == SelectSeq(data[op.b], LAMBDA n : Deref(heap, n).column # Unset)
            r == rows_loop(heap, populated, 1, 0)
        IN /\ op.result \notin NullDerefOutcomes
           /\ op.result = r.result
           /\ op.ret.value = r.ret.value

\* C8: insert(p, e) with p < columns() puts e at ordinal p, leaves the entries
\* before p where they were, moves each entry from ordinal i >= p to i + 1, grows
\* columns() by one, and makes getByName(e.name) return e at position p.
C8_InsertAtPosition ==
    [][\A b \in Blocks, p \in Positions, e \in Entries :
          (insert_position(b, p, e) /\ p < columns(b)) =>
              LET new == index_by_position'[b][p + 1]
              IN /\ Len(data'[b]) = columns(b) + 1
                 /\ Len(index_by_position'[b]) = columns(b) + 1
                 /\ new \notin NodesOf(b)
                 /\ heap'[new] = e
                 /\ data'[b][p + 1] = new
                 /\ \A i \in 0 .. p - 1 :
                        /\ index_by_position'[b][i + 1] = getByPosition(b, i)
                        /\ data'[b][i + 1] = data[b][i + 1]
                 /\ \A i \in p .. columns(b) - 1 :
                        /\ index_by_position'[b][i + 2] = getByPosition(b, i)
                        /\ data'[b][i + 2] = data[b][i + 1]
                 /\ \A n \in NodesOf(b) : heap'[n] = heap[n]
                 /\ e.name \in DOMAIN index_by_name'[b]
                 /\ index_by_name'[b][e.name] = new
                 /\ IndexOf(data'[b], index_by_name'[b][e.name]) - 1 = p]_vars

\* insert(a), insert(b), insert(1, c) on an empty block: order a, c, b with b at 2.
C8_Witness ==
    /\ op.name = "insert_position" /\ op.b = "B1" /\ op.result = "ok"
    /\ data["B1"] = <<1, 3, 2>>
    /\ [i \in 1..3 |-> EntriesOf("B1")[i].name] = <<"a", "c", "b">>
    /\ getPositionByName("B1", "b") = 2
    /\ getPositionByName("B1", "c") = 1

\* C9: erase(p) with p < columns() removes exactly the entry at ordinal p:
\* columns() drops by one, the entries before p stay, and getByPosition(i) for
\* i >= p returns what was at i + 1.
C9_EraseAtPosition ==
    [][\A b \in Blocks, p \in Positions :
          (erase_position(b, p) /\ p < columns(b)) =>
              /\ Len(data'[b]) = columns(b) - 1
              /\ Len(index_by_position'[b]) = columns(b) - 1
              /\ \A i \in 0 .. p - 1 :
                     index_by_position'[b][i + 1] = getByPosition(b, i)
              /\ \A i \in p .. columns(b) - 2 :
                     index_by_position'[b][i + 1] = getByPosition(b, i + 1)
              /\ \A n \in NodesOf(b) \ {getByPosition(b, p)} : heap'[n] = heap[n]]_vars

\* insertUnique(e) with e.name in the name index changes nothing; otherwise it
\* appends e, as insert(e) does, and maps e.name to the new entry.
InsertUniqueStep ==
    \A b \in Blocks, e \in Entries :
        insertUnique(b, e) =>
            IF has(b, e.name)
            THEN Unchanged
            ELSE LET new == data'[b][columns(b) + 1]
                 IN /\ Len(data'[b]) = columns(b) + 1
                    /\ SubSeq(data'[b], 1, columns(b)) = data[b]
                    /\ new \notin NodesOf(b)
                    /\ heap'[new] = e
                    /\ index_by_position'[b] = data'[b]
                    /\ index_by_name'[b] = MapSet(index_by_name[b], e.name, new)

\* The last two calls were insertUnique on the same block with the same name.
InsertUniqueTwice == op.name = "insertUnique" /\ op.prev = op.ename

\* C10 as stated: insertUnique is a no-op on a name of the name index and insert(e)
\* otherwise, and two calls in a row with the same name add exactly one entry,
\* the second call adding none.
C10_InsertUniqueTwiceAddsOne ==
    /\ [](InsertUniqueTwice => /\ columns(op.b) = op.cols
                               /\ columns(op.b) = op.prevcols + 1)
    /\ [][InsertUniqueStep]_vars

\* C10 amended: two calls in a row with the same name add one entry when the name
\* index did not hold the name before the first call and none when it did; the
\* second call adds none either way.
C10_InsertUniqueTwiceAddsAtMostOne ==
    /\ [](InsertUniqueTwice => /\ columns(op.b) = op.cols
                               /\ has(op.b, op.ename)
                               /\ columns(op.b) - op.prevcols \in {0, 1})
    /\ [][InsertUniqueStep]_vars

\* Two calls in a row with a name the block did not have: one entry added.
C10_Witness ==
    /\ InsertUniqueTwice
    /\ op.ename = "a"
    /\ op.prevcols = 0 /\ columns("B1") = 1
    /\ EntriesOf("B1")[1].name = "a"

\* The block b after elem was appended in a new node: the list, the heap, the
\* position index and the name index, every other name's slot as it was.
Appended(b, elem) ==
    LET new == allocated + 1
    IN /\ data' = [data EXCEPT ![b] = Append(data[b], new)]
       /\ heap' = [heap EXCEPT ![new] = elem]
       /\ index_by_position' = [index_by_position EXCEPT ![b] = Append(data[b], new)]
       /\ DOMAIN index_by_name'[b] = DOMAIN index_by_name[b] \cup {elem.name}
       /\ index_by_name'[b][elem.name] = new
       /\ \A n \in DOMAIN index_by_name[b] \ {elem.name} :
              index_by_name'[b][n] = index_by_name[b][n]
       /\ \A x \in Blocks \ {b} : index_by_name'[x] = index_by_name[x]

\* C11: after insert(e) the new entry is the last of the sequence, getByName(e.name)
\* returns it, getPositionByName(e.name) is columns() - 1, and the name-index slot
\* of every other name addresses the entry it addressed before.
C11_InsertAtEnd ==
    [][\A b \in Blocks, e \in Entries :
          insert(b, e) =>
              LET new == data'[b][Len(data'[b])]
              IN /\ Len(data'[b]) = columns(b) + 1
                 /\ SubSeq(data'[b], 1, columns(b)) = data[b]
                 /\ new \notin NodesOf(b)
                 /\ heap'[new] = e
                 /\ e.name \in DOMAIN index_by_name'[b]
                 /\ index_by_name'[b][e.name] = new
                 /\ IndexOf(data'[b], index_by_name'[b][e.name]) - 1 = Len(data'[b]) - 1
                 /\ \A n \in Names \ {e.name} :
                        /\ (n \in DOMAIN index_by_name'[b]) = has(b, n)
                        /\ has(b, n) =>
                               /\ index_by_name'[b][n] = getByName(b, n)
                               /\ heap'[getByName(b, n)] = heap[getByName(b, n)]]_vars

\* A second entry named a was appended behind one named b and one named a.
C11_Witness ==
    /\ op.name = "insert" /\ op.b = "B1"
    /\ data["B1"] = <<1, 2, 3>>
    /\ [i \in 1..3 |-> EntriesOf("B1")[i].name] = <<"b", "a", "a">>
    /\ getByName("B1", "a") = 3 /\ getPositionByName("B1", "a") = 2
    /\ getByName("B1", "b") = 1

\* C12: insert(columns(), e) leaves the block that insert(e) leaves: the same
\* sequence, position index and name index.
C12_InsertAtColumnsIsInsertAtEnd ==
    [][\A b \in Blocks, e \in Entries :
          /\ insert(b, e) => Appended(b, e)
          /\ insert_position(b, columns(b), e) => Appended(b, e)]_vars

\* insert(1, e) on a one-column block: the new entry is the last one.
C12_Witness ==
    /\ op.name = "insert_position" /\ op.b = "B1" /\ op.result = "ok"
    /\ allocated = 2
    /\ data["B1"] = <<1, 2>>
    /\ getByPosition("B1", 1) = 2

\* C13: insert(p, e) with p > columns() fails with PositionOutOfBound and leaves
\* the sequence, the position index and the name index as they were.
C13_InsertPastEndFails ==
    [][\A b \in Blocks, p \in Positions, e \in Entries :
          (insert_position(b, p, e) /\ p > columns(b)) =>
              /\ op'.result = "PositionOutOfBound"
              /\ heap' = heap /\ data' = data
              /\ index_by_position' = index_by_position
              /\ index_by_name' = index_by_name]_vars

\* An insert past the end of a two-column block was refused.
C13_Witness ==
    /\ op.name = "insert_position" /\ op.b = "B1" /\ op.result = "PositionOutOfBound"
    /\ columns("B1") = 2 /\ Len(index_by_position["B1"]) = 2
    /\ allocated = 2

\* C14: erase(name) with no slot for name in the name index fails with
\* ColumnNotFound and leaves columns(), the column order and the results of has,
\* getByName and getPositionByName as they were.
C14_EraseAbsentNameFails ==
    [][\A b \in Blocks, n \in Names :
          (erase_name(b, n) /\ ~has(b, n)) =>
              /\ op'.result = "ColumnNotFound"
              /\ View(b)' = View(b)]_vars

\* An erase by a name the two-column block does not index was refused.
C14_Witness ==
    /\ op.name = "erase_name" /\ op.b = "B1" /\ op.result = "ColumnNotFound"
    /\ columns("B1") = 2
    /\ Cardinality(DOMAIN index_by_name["B1"]) = 2

\* C17: erase(p) fails only with PositionOutOfBound and only when p >= columns();
\* with p < columns() it completes normally, finds the name-index slot of the
\* entry's name before erasing it, and removes exactly one entry.
C17_ErasePositionTotal ==
    [][\A b \in Blocks, p \in Positions :
          erase_position(b, p) =>
              IF p >= columns(b)
              THEN op'.result = "PositionOutOfBound"
              ELSE /\ op'.result = "ok"
                   /\ has(b, Deref(heap, getByPosition(b, p)).name)
                   /\ Len(data'[b]) = columns(b) - 1]_vars

\* C18: when rows() ends in SizeMismatch, each reported (name, count) pair is an
\* entry of the block with that entry's own element count, and the two counts
\* differ.
C18_SizeMismatchPairsAreColumns ==
    (op.name = "rows" /\ op.result = "SizeMismatch") =>
        /\ \E i \in 1..columns(op.b) :
               /\ EntriesOf(op.b)[i].name = op.ret.n1
               /\ EntriesOf(op.b)[i].column = op.ret.c1
        /\ \E i \in 1..columns(op.b) :
               /\ EntriesOf(op.b)[i].name = op.ret.n2
               /\ EntriesOf(op.b)[i].column = op.ret.c2
        /\ op.ret.c1 # op.ret.c2

\* C19: assigning a block to itself leaves the column order and, for every name,
\* the results of has, getByName and getPositionByName as they were.
C19_SelfAssignUnchanged ==
    [][\A b \in Blocks : operator_assign(b, b) => View(b)' = View(b)]_vars

\* C15: C = B.cloneEmpty() of a block B whose columns are all populated has as
\* many columns as B, in the same order with the same names and types;
\* blocksHaveEqualStructure(B, C) is true and C.rows() is 0.
C15_CloneEmptyRoundTrip ==
    \A B \in Blocks, C \in Blocks :
        (B # C /\ copied_from[C] = B /\ AllPopulated(B)) =>
            /\ columns(C) = columns(B)
            /\ \A i \in 1..columns(B) :
                   /\ EntriesOf(C)[i].name = EntriesOf(B)[i].name
                   /\ EntriesOf(C)[i].type = EntriesOf(B)[i].type
            /\ (op.name = "blocksHaveEqualStructure" /\ op.b = B /\ op.other = C) =>
                   op.result = "true"
            /\ (op.name = "rows" /\ op.b = C) => (op.result = "ok" /\ op.ret.value = 0)

\* The clone of a block with two columns of one name and two types was compared
\* with the block.
C15_Witness ==
    /\ copied_from["B2"] = "B1"
    /\ columns("B1") = 2
    /\ EntriesOf("B1")[1].name = EntriesOf("B1")[2].name
    /\ EntriesOf("B1")[1].type # EntriesOf("B1")[2].type
    /\ EntriesOf("B2")[1].column = 0 /\ EntriesOf("B2")[2].column = 0
    /\ op.name = "blocksHaveEqualStructure" /\ op.b = "B1" /\ op.other = "B2"
    /\ op.result = "true"

\* C16: blocksHaveEqualStructure(lhs, rhs) is true exactly when the two blocks
\* have the same number of columns and, position by position, columns of the same
\* type name; names and data play no part.
C16_EqualStructureIffTypes ==
    op.name = "blocksHaveEqualStructure" =>
        ((op.result = "true") <=>
            /\ columns(op.b) = columns(op.other)
            /\ \A i \in 1..columns(op.b) :
                   EntriesOf(op.b)[i].type = EntriesOf(op.other)[i].type)

\* Two two-column blocks of the same types, with other names and other data, were
\* found equal in structure.
C16_Witness ==
    /\ op.name = "blocksHaveEqualStructure" /\ op.b = "B1" /\ op.other = "B2"
    /\ op.result = "true"
    /\ columns("B1") = 2
    /\ EntriesOf("B1")[1].type # EntriesOf("B1")[2].type
    /\ \A i \in 1..2 : /\ EntriesOf("B1")[i].name # EntriesOf("B2")[i].name
                       /\ EntriesOf("B1")[i].column # EntriesOf("B2")[i].column

\* C20: when every insertion used a name no entry of the sequence carried, then
\* after any inserts and erases the names in the sequence are pairwise distinct,
\* has(n) is true exactly for the names in the sequence, and
\* getByPosition(getPositionByName(n)) is the entry named n.
C20_UniqueNames ==
    \A b \in Blocks :
        /\ \A i \in 1..columns(b), j \in 1..columns(b) :
               EntriesOf(b)[i].name = EntriesOf(b)[j].name => i = j
        /\ \A n \in Names :
               has(b, n) <=> \E i \in 1..columns(b) : EntriesOf(b)[i].name = n
        /\ \A n \in Names :
               has(b, n) =>
                   /\ Deref(heap, getByPosition(b, getPositionByName(b, n))).name = n
                   /\ getByPosition(b, getPositionByName(b, n)) = getByName(b, n)

\* Three names were inserted, the last one in front, and the middle entry was
\* then erased by name.
C20_Witness ==
    /\ op.name = "erase_name" /\ op.b = "B1" /\ op.result = "ok"
    /\ data["B1"] = <<3, 2>>
    /\ has("B1", EntriesOf("B1")[1].name) /\ has("B1", EntriesOf("B1")[2].name)
    /\ Cardinality({n \in Names : has("B1", n)}) = 2

====
